---- MODULE Spec2Model ----
(***************************************************************************)
(* A model of the permit SDK's management API bindings (EnvironmentsApi,   *)
(* TenantsApi, UsersApi) and of PermitConfig.                              *)
(*                                                                         *)
(* One caller drives the three API objects.  A call runs the scope guard,  *)
(* the argument validation and the method body, which hands one request to *)
(* the HTTP client; the remote API answers; the method returns what the    *)
(* client made of the answer.                                              *)
(***************************************************************************)
EXTENDS Integers, Sequences, FiniteSets, TLC

VARIABLES
    api_context,    \* config.api_context: api_key_level, project, environment
    pc,             \* "ready" | "awaiting" | "responded" | "done"
    cur,            \* the call in progress (or the last one): api, op, args
    outcome,        \* what the method did before awaiting: err, req, model
    response,       \* the remote API's answer to the request in flight
    result,         \* what the call returned or raised
    npassed,        \* calls whose scope guard passed
    naccepted,      \* calls that passed the guard, the validation and the body's checks
    nrequests,      \* HTTP requests handed to the client
    call_requests,  \* HTTP requests issued for the call in progress
    repeat,         \* the call in progress repeats the previous call, argument for argument
    prev_body,      \* the body of the previous call's response
    cfg_kwargs,     \* the keyword arguments of the last PermitConfig(...) construction
    cfg_result,     \* what that construction returned or raised
    gen_pc,         \* generated endpoints: "ready" | "awaiting" | "done"
    gen_call,       \* the endpoint function called and its arguments
    gen_request,    \* the keyword arguments handed to httpx for it
    gen_response,   \* the httpx response to that request
    gen_result      \* what the endpoint function returned or raised

vars == <<api_context, pc, cur, outcome, response, result, npassed, naccepted,
          nrequests, call_requests, repeat, prev_body, cfg_kwargs, cfg_result,
          gen_pc, gen_call, gen_request, gen_response, gen_result>>

api_vars == <<api_context, pc, cur, outcome, response, result, npassed, naccepted,
              nrequests, call_requests, repeat, prev_body>>

cfg_vars == <<cfg_kwargs, cfg_result>>

gen_vars == <<gen_pc, gen_call, gen_request, gen_response, gen_result>>

-----------------------------------------------------------------------------
(* Bounds and input domains *)

MaxCalls == 2

ProjectKeys == {"proj-a", "proj-b"}
EnvironmentKeys == {"dev", "prod"}
TenantKeys == {"t1", "t2"}
UserKeys == {"u1", "u2"}
PageValues == {2}
PerPageValues == {50}
Statuses == {200, 404, 500}
Bodies == {"body-1", "body-2"}

-----------------------------------------------------------------------------
(* Python values *)

None == "<None>"

NoParams == [n \in {} |-> 0]

\* keyword arguments a caller may pass for page and per_page (any may be omitted)
PaginationKwargs ==
    { p @@ q : p \in {NoParams} \cup { [page |-> v] : v \in PageValues },
               q \in {NoParams} \cup { [per_page |-> v] : v \in PerPageValues } }

\* the value a parameter takes: the caller's, or the signature's default
Arg(kwargs, name, default) == IF name \in DOMAIN kwargs THEN kwargs[name] ELSE default

NoJson == [kind |-> "none"]
NoRequest == [method |-> "NONE", path |-> <<>>, params |-> NoParams, json |-> NoJson]

\* a pydantic model instance, and the dict its .dict() gives
Model(type, fields) == [kind |-> "model", type |-> type, fields |-> fields]
Dict(fields) == [kind |-> "dict", fields |-> fields]
dict(m) == Dict(m.fields)
Exclude(d, names) == Dict([k \in (DOMAIN d.fields) \ names |-> d.fields[k]])

\* the method raised before any request
Raise(e) == [err |-> e, req |-> NoRequest, model |-> None]

\* the method handed one request to its SimpleHttpClient and awaits it
Send(method, path, params, json, model) ==
    [err |-> "",
     req |-> [method |-> method, path |-> path, params |-> params, json |-> json],
     model |-> model]

-----------------------------------------------------------------------------
(* permit.api.context / permit.api.base: the scope guard, the pagination
   helper and the argument validation that decorate the API methods *)

PROJECT_LEVEL_API_KEY == "PROJECT_LEVEL_API_KEY"
ENVIRONMENT_LEVEL_API_KEY == "ENVIRONMENT_LEVEL_API_KEY"
ApiKeyLevel == {PROJECT_LEVEL_API_KEY, ENVIRONMENT_LEVEL_API_KEY}

\* @ensure_context(call_level): compares the configured API-key level with the
\* level the endpoint requires and raises before the method runs on a mismatch
ensure_context(call_level, method_outcome) ==
    IF api_context.api_key_level # call_level
    THEN Raise("PermitContextError")
    ELSE method_outcome

\* @validate_arguments: the arguments are checked against the signature before
\* the body runs; valid tells whether the caller's arguments are accepted
validate_arguments(valid, body_outcome) ==
    IF ~valid THEN Raise("ValidationError") ELSE body_outcome

pagination_params(page, per_page) == [page |-> page, per_page |-> per_page]

\* dict.update
Update(d, e) == e @@ d

DefaultPage == 1
DefaultPerPage == 100

-----------------------------------------------------------------------------
(* UsersApi *)

UserCreates == { Model("UserCreate", [key |-> k, email |-> "a@b.c"]) : k \in UserKeys }
UserDicts ==
    { Dict([key |-> k, email |-> "a@b.c"]) : k \in UserKeys \cup {None} }
        \cup { Dict([email |-> "a@b.c"]) }
SyncInputs == UserCreates \cup UserDicts
UserUpdates == { Model("UserUpdate", [email |-> "x@y.z"]) }
RoleAssignmentCreates ==
    { Model("RoleAssignmentCreate", [user |-> u, role |-> "admin", tenant |-> "t1"]) :
        u \in UserKeys }
RoleAssignmentRemoves ==
    { Model("RoleAssignmentRemove", [user |-> u, role |-> "admin", tenant |-> "t1"]) :
        u \in UserKeys }

\* the __users property: a client over the users path of the configured context
UsersApi_users == <<"v2", "facts", api_context.project, api_context.environment, "users">>

\* the __role_assignments property
UsersApi_role_assignments ==
    <<"v2", "facts", api_context.project, api_context.environment, "role_assignments">>

\* UsersApi.list with its @ensure_context decorator left out
UsersApi_list_unguarded(kwargs, valid) ==
    validate_arguments(valid,
        Send("GET", UsersApi_users,
             pagination_params(Arg(kwargs, "page", DefaultPage),
                               Arg(kwargs, "per_page", DefaultPerPage)),
             NoJson, "PaginatedResultUserRead"))

UsersApi_list(kwargs, valid) ==
    ensure_context(ENVIRONMENT_LEVEL_API_KEY, validate_arguments(valid,
        Send("GET", UsersApi_users,
             pagination_params(Arg(kwargs, "page", DefaultPage),
                               Arg(kwargs, "per_page", DefaultPerPage)),
             NoJson, "PaginatedResultUserRead")))

UsersApi_get(user_key, valid) ==
    ensure_context(ENVIRONMENT_LEVEL_API_KEY, validate_arguments(valid,
        Send("GET", UsersApi_users \o <<user_key>>, NoParams, NoJson, "UserRead")))

UsersApi_get_by_key(user_key, valid) ==
    ensure_context(ENVIRONMENT_LEVEL_API_KEY, validate_arguments(valid,
        UsersApi_get(user_key, valid)))

UsersApi_get_by_id(user_id, valid) ==
    ensure_context(ENVIRONMENT_LEVEL_API_KEY, validate_arguments(valid,
        UsersApi_get(user_id, valid)))

UsersApi_create(user_data, valid) ==
    ensure_context(ENVIRONMENT_LEVEL_API_KEY, validate_arguments(valid,
        Send("POST", UsersApi_users, NoParams, user_data, "UserRead")))

UsersApi_update(user_key, user_data, valid) ==
    ensure_context(ENVIRONMENT_LEVEL_API_KEY, validate_arguments(valid,
        Send("PATCH", UsersApi_users \o <<user_key>>, NoParams, user_data, "UserRead")))

\* sync reading the key with user.get("key") and leaving it in the dict
UsersApi_sync_key_kept(user, valid) ==
    ensure_context(ENVIRONMENT_LEVEL_API_KEY, validate_arguments(valid,
        IF user.kind = "dict"
        THEN LET user_key == IF "key" \in DOMAIN user.fields
                             THEN user.fields["key"] ELSE None
             IN  IF user_key = None
                 THEN Raise("KeyError")
                 ELSE Send("PUT", UsersApi_users \o <<user_key>>, NoParams, user,
                           "UserRead")
        ELSE Send("PUT", UsersApi_users \o <<user.fields["key"]>>, NoParams, user,
                  "UserRead")))

\* sync written as create: a POST to the users path, the key left in the body
UsersApi_sync_as_create(user, valid) ==
    ensure_context(ENVIRONMENT_LEVEL_API_KEY, validate_arguments(valid,
        IF user.kind = "dict" /\ ("key" \notin DOMAIN user.fields \/ user.fields["key"] = None)
        THEN Raise("KeyError")
        ELSE Send("POST", UsersApi_users, NoParams, user, "UserRead")))

\* user is a UserCreate or a dict; a dict has its "key" popped (None when absent)
UsersApi_sync(user, valid) ==
    ensure_context(ENVIRONMENT_LEVEL_API_KEY, validate_arguments(valid,
        IF user.kind = "dict"
        THEN LET user_key == IF "key" \in DOMAIN user.fields
                             THEN user.fields["key"] ELSE None
                 popped == Exclude(user, {"key"})
             IN  IF user_key = None
                 THEN Raise("KeyError")
                 ELSE Send("PUT", UsersApi_users \o <<user_key>>, NoParams, popped,
                           "UserRead")
        ELSE Send("PUT", UsersApi_users \o <<user.fields["key"]>>, NoParams, user,
                  "UserRead")))

\* UsersApi.delete guarded with the project level of the environments module
UsersApi_delete_project_level(user_key, valid) ==
    ensure_context(PROJECT_LEVEL_API_KEY, validate_arguments(valid,
        Send("DELETE", UsersApi_users \o <<user_key>>, NoParams, NoJson, None)))

UsersApi_delete(user_key, valid) ==
    ensure_context(ENVIRONMENT_LEVEL_API_KEY, validate_arguments(valid,
        Send("DELETE", UsersApi_users \o <<user_key>>, NoParams, NoJson, None)))

UsersApi_assign_role(assignment, valid) ==
    ensure_context(ENVIRONMENT_LEVEL_API_KEY, validate_arguments(valid,
        Send("POST", UsersApi_users \o <<assignment.fields["user"], "roles">>, NoParams,
             Exclude(dict(assignment), {"user"}), "RoleAssignmentRead")))

\* unassign_role sending the whole unassignment, the user field included
UsersApi_unassign_role_whole_body(unassignment, valid) ==
    ensure_context(ENVIRONMENT_LEVEL_API_KEY, validate_arguments(valid,
        Send("DELETE", UsersApi_users \o <<unassignment.fields["user"], "roles">>, NoParams,
             dict(unassignment), None)))

UsersApi_unassign_role(unassignment, valid) ==
    ensure_context(ENVIRONMENT_LEVEL_API_KEY, validate_arguments(valid,
        Send("DELETE", UsersApi_users \o <<unassignment.fields["user"], "roles">>, NoParams,
             Exclude(dict(unassignment), {"user"}), None)))

\* get_assigned_roles adding the tenant filter without testing it for None
UsersApi_get_assigned_roles_always_tenant(user, tenant, kwargs, valid) ==
    ensure_context(ENVIRONMENT_LEVEL_API_KEY, validate_arguments(valid,
        LET params0 == pagination_params(Arg(kwargs, "page", DefaultPage),
                                         Arg(kwargs, "per_page", DefaultPerPage))
            params1 == Update(params0, [user |-> user])
            params2 == Update(params1, [tenant |-> tenant])
        IN  Send("GET", UsersApi_role_assignments, params2, NoJson,
                 "List[RoleAssignmentRead]")))

UsersApi_get_assigned_roles(user, tenant, kwargs, valid) ==
    ensure_context(ENVIRONMENT_LEVEL_API_KEY, validate_arguments(valid,
        LET params0 == pagination_params(Arg(kwargs, "page", DefaultPage),
                                         Arg(kwargs, "per_page", DefaultPerPage))
            params1 == Update(params0, [user |-> user])
            params2 == IF tenant # None THEN Update(params1, [tenant |-> tenant])
                       ELSE params1
        IN  Send("GET", UsersApi_role_assignments, params2, NoJson,
                 "List[RoleAssignmentRead]")))

-----------------------------------------------------------------------------
(* EnvironmentsApi: a client over the API root, every path spelled in full *)

EnvironmentCreates == { Model("EnvironmentCreate", [key |-> "staging", name |-> "Staging"]) }
EnvironmentUpdates == { Model("EnvironmentUpdate", [name |-> "Renamed"]) }
EnvironmentCopies == { Model("EnvironmentCopy", [target_env |-> "prod"]) }

EnvironmentsApi_list(project_key, kwargs, valid) ==
    ensure_context(PROJECT_LEVEL_API_KEY, validate_arguments(valid,
        Send("GET", <<"v2", "projects", project_key, "envs">>,
             pagination_params(Arg(kwargs, "page", DefaultPage),
                               Arg(kwargs, "per_page", DefaultPerPage)),
             NoJson, "List[EnvironmentRead]")))

EnvironmentsApi_get(project_key, environment_key, valid) ==
    ensure_context(PROJECT_LEVEL_API_KEY, validate_arguments(valid,
        Send("GET", <<"v2", "projects", project_key, "envs", environment_key>>,
             NoParams, NoJson, "EnvironmentRead")))

EnvironmentsApi_get_by_key(project_key, environment_key, valid) ==
    ensure_context(PROJECT_LEVEL_API_KEY, validate_arguments(valid,
        EnvironmentsApi_get(project_key, environment_key, valid)))

\* get_by_id delegating to get with its two arguments exchanged
EnvironmentsApi_get_by_id_swapped(project_id, environment_id, valid) ==
    ensure_context(PROJECT_LEVEL_API_KEY, validate_arguments(valid,
        EnvironmentsApi_get(environment_id, project_id, valid)))

EnvironmentsApi_get_by_id(project_id, environment_id, valid) ==
    ensure_context(PROJECT_LEVEL_API_KEY, validate_arguments(valid,
        EnvironmentsApi_get(project_id, environment_id, valid)))

EnvironmentsApi_get_stats(project_key, environment_key, valid) ==
    ensure_context(PROJECT_LEVEL_API_KEY, validate_arguments(valid,
        Send("GET", <<"v2", "projects", project_key, "envs", environment_key, "stats">>,
             NoParams, NoJson, "EnvironmentStats")))

EnvironmentsApi_get_api_key(project_key, environment_key, valid) ==
    ensure_context(PROJECT_LEVEL_API_KEY, validate_arguments(valid,
        Send("GET", <<"v2", "api-key", project_key, environment_key>>,
             NoParams, NoJson, "APIKeyRead")))

EnvironmentsApi_create(project_key, environment_data, valid) ==
    ensure_context(PROJECT_LEVEL_API_KEY, validate_arguments(valid,
        Send("POST", <<"v2", "projects", project_key, "envs">>,
             NoParams, environment_data, "EnvironmentRead")))

EnvironmentsApi_update(project_key, environment_key, environment_data, valid) ==
    ensure_context(PROJECT_LEVEL_API_KEY, validate_arguments(valid,
        Send("PATCH", <<"v2", "projects", project_key, "envs", environment_key>>,
             NoParams, environment_data, "EnvironmentRead")))

EnvironmentsApi_copy(project_key, environment_key, copy_params, valid) ==
    ensure_context(PROJECT_LEVEL_API_KEY, validate_arguments(valid,
        Send("POST", <<"v2", "projects", project_key, "envs", environment_key, "copy">>,
             NoParams, copy_params, "EnvironmentRead")))

\* delete addressing the environment without the project it belongs to
EnvironmentsApi_delete_flat_path(project_key, environment_key, valid) ==
    ensure_context(PROJECT_LEVEL_API_KEY, validate_arguments(valid,
        Send("DELETE", <<"v2", "envs", environment_key>>, NoParams, NoJson, None)))

EnvironmentsApi_delete(project_key, environment_key, valid) ==
    ensure_context(PROJECT_LEVEL_API_KEY, validate_arguments(valid,
        Send("DELETE", <<"v2", "projects", project_key, "envs", environment_key>>,
             NoParams, NoJson, None)))

-----------------------------------------------------------------------------
(* TenantsApi: a client over the tenants path of the configured context; its
   methods carry the scope guard and no argument validation *)

TenantCreates == { Model("TenantCreate", [key |-> "t3", name |-> "Tenant 3"]) }
TenantUpdates == { Model("TenantUpdate", [name |-> "Renamed"]) }

\* self.__tenants is built once, in __init__, from the context of that moment;
\* the context does not change afterwards in this model
TenantsApi_tenants ==
    <<"v2", "facts", api_context.project, api_context.environment, "tenants">>

TenantsApi_list(kwargs) ==
    ensure_context(ENVIRONMENT_LEVEL_API_KEY,
        Send("GET", TenantsApi_tenants,
             pagination_params(Arg(kwargs, "page", DefaultPage),
                               Arg(kwargs, "per_page", DefaultPerPage)),
             NoJson, "List[TenantRead]"))

\* list_tenant_users handing page and per_page to pagination_params in the wrong order
TenantsApi_list_tenant_users_swapped(tenant_key, kwargs) ==
    ensure_context(ENVIRONMENT_LEVEL_API_KEY,
        Send("GET", TenantsApi_tenants \o <<tenant_key, "users">>,
             pagination_params(Arg(kwargs, "per_page", DefaultPerPage),
                               Arg(kwargs, "page", DefaultPage)),
             NoJson, "PaginatedResultUserRead"))

TenantsApi_list_tenant_users(tenant_key, kwargs) ==
    ensure_context(ENVIRONMENT_LEVEL_API_KEY,
        Send("GET", TenantsApi_tenants \o <<tenant_key, "users">>,
             pagination_params(Arg(kwargs, "page", DefaultPage),
                               Arg(kwargs, "per_page", DefaultPerPage)),
             NoJson, "PaginatedResultUserRead"))

TenantsApi_get(tenant_key) ==
    ensure_context(ENVIRONMENT_LEVEL_API_KEY,
        Send("GET", TenantsApi_tenants \o <<tenant_key>>, NoParams, NoJson, "TenantRead"))

TenantsApi_get_by_key(tenant_key) ==
    ensure_context(ENVIRONMENT_LEVEL_API_KEY, TenantsApi_get(tenant_key))

TenantsApi_get_by_id(tenant_id) ==
    ensure_context(ENVIRONMENT_LEVEL_API_KEY, TenantsApi_get(tenant_id))

TenantsApi_create(tenant_data) ==
    ensure_context(ENVIRONMENT_LEVEL_API_KEY,
        Send("POST", TenantsApi_tenants, NoParams, dict(tenant_data), "TenantRead"))

TenantsApi_update(tenant_key, tenant_data) ==
    ensure_context(ENVIRONMENT_LEVEL_API_KEY,
        Send("PATCH", TenantsApi_tenants \o <<tenant_key>>, NoParams, dict(tenant_data),
             "TenantRead"))

TenantsApi_delete(tenant_key) ==
    ensure_context(ENVIRONMENT_LEVEL_API_KEY,
        Send("DELETE", TenantsApi_tenants \o <<tenant_key>>, NoParams, NoJson, None))

TenantsApi_delete_tenant_user(tenant_key, user_key) ==
    ensure_context(ENVIRONMENT_LEVEL_API_KEY,
        Send("DELETE", TenantsApi_tenants \o <<tenant_key, "users", user_key>>,
             NoParams, NoJson, None))

-----------------------------------------------------------------------------
(* SimpleHttpClient: what the client makes of the remote API's answer *)

NoResponse == [status |-> 0, body |-> ""]
Pending == [kind |-> "pending", error |-> "", model |-> None, body |-> ""]
Raised(e) == [kind |-> "raise", error |-> e, model |-> None, body |-> ""]
Returned(model, body) ==
    [kind |-> "return", error |-> "", model |-> model,
     body |-> IF model = None THEN "" ELSE body]

\* an error HTTP status code raises PermitApiError; otherwise the body is parsed
\* into the requested model (None when the call asks for no model)
handle_response(model, resp) ==
    IF resp.status >= 400 THEN Raised("PermitApiError") ELSE Returned(model, resp.body)

-----------------------------------------------------------------------------
(* The caller: one call at a time *)

NoCall == [api |-> "none", op |-> "none", args |-> NoParams]

\* a call of a method whose guard, validation and body come to `out`
Invoke(api, op, args, out) ==
    /\ pc \in {"ready", "done"}
    /\ npassed < MaxCalls
    /\ cur' = [api |-> api, op |-> op, args |-> args]
    /\ outcome' = out
    /\ npassed' = IF out.err # "PermitContextError" THEN npassed + 1 ELSE npassed
    /\ naccepted' = IF out.err = "" THEN naccepted + 1 ELSE naccepted
    /\ nrequests' = IF out.req # NoRequest THEN nrequests + 1 ELSE nrequests
    /\ call_requests' = IF out.req # NoRequest THEN 1 ELSE 0
    /\ pc' = IF out.req # NoRequest THEN "awaiting" ELSE "done"
    /\ result' = IF out.req # NoRequest THEN Pending ELSE Raised(out.err)
    /\ repeat' = (cur' = cur)
    /\ prev_body' = response.body
    /\ response' = NoResponse
    /\ UNCHANGED <<api_context, cfg_vars, gen_vars>>

\* the remote API answers the request in flight
Respond(status, body) ==
    /\ pc = "awaiting"
    /\ response' = [status |-> status, body |-> body]
    /\ pc' = "responded"
    /\ UNCHANGED <<api_context, cur, outcome, result, npassed, naccepted, nrequests,
                   call_requests, repeat, prev_body, cfg_vars, gen_vars>>

\* the method returns the client's coroutine without awaiting it: the call ends
\* while the request is still in flight
Return_without_await ==
    /\ pc \in {"awaiting", "responded"}
    /\ result' = Returned(outcome.model, response.body)
    /\ pc' = "done"
    /\ UNCHANGED <<api_context, cur, outcome, response, npassed, naccepted, nrequests,
                   call_requests, repeat, prev_body, cfg_vars, gen_vars>>

\* the method catches the client's PermitApiError and sends the request again
Return_with_retry ==
    /\ pc = "responded"
    /\ IF response.status >= 400 /\ call_requests < 2
       THEN /\ pc' = "awaiting"
            /\ nrequests' = nrequests + 1
            /\ call_requests' = call_requests + 1
            /\ UNCHANGED result
       ELSE /\ result' = handle_response(outcome.model, response)
            /\ pc' = "done"
            /\ UNCHANGED <<nrequests, call_requests>>
    /\ UNCHANGED <<api_context, cur, outcome, response, npassed, naccepted,
                   repeat, prev_body, cfg_vars, gen_vars>>

\* `return await client.<method>(...)`: the method ends with what the client
\* returns or raises for the answer
Return ==
    /\ pc = "responded"
    /\ result' = handle_response(outcome.model, response)
    /\ pc' = "done"
    /\ UNCHANGED <<api_context, cur, outcome, response, npassed, naccepted, nrequests,
                   call_requests, repeat, prev_body, cfg_vars, gen_vars>>

Call_UsersApi_list ==
    \E kwargs \in PaginationKwargs, valid \in BOOLEAN :
        Invoke("UsersApi", "list", [kwargs |-> kwargs, valid |-> valid],
               UsersApi_list(kwargs, valid))

\* UsersApi.get with a memo of the last user read: an identical read that
\* follows a successful one returns the remembered model and sends nothing
Call_UsersApi_get_cached ==
    \E user_key \in UserKeys, valid \in BOOLEAN :
        LET args == [key |-> user_key, valid |-> valid]
            out == UsersApi_get(user_key, valid)
        IN  IF /\ out.err = ""
               /\ cur = [api |-> "UsersApi", op |-> "get", args |-> args]
               /\ result.kind = "return"
            THEN /\ pc = "done"
                 /\ npassed < MaxCalls
                 /\ npassed' = npassed + 1
                 /\ naccepted' = naccepted + 1
                 /\ outcome' = [out EXCEPT !.req = NoRequest]
                 /\ call_requests' = 0
                 /\ repeat' = TRUE
                 /\ prev_body' = response.body
                 /\ UNCHANGED <<api_context, pc, cur, response, result, nrequests,
                                cfg_vars, gen_vars>>
            ELSE Invoke("UsersApi", "get", args, out)

Call_UsersApi_get ==
    \E user_key \in UserKeys, valid \in BOOLEAN :
        Invoke("UsersApi", "get", [key |-> user_key, valid |-> valid],
               UsersApi_get(user_key, valid))

Call_UsersApi_get_by_key ==
    \E user_key \in UserKeys, valid \in BOOLEAN :
        Invoke("UsersApi", "get_by_key", [key |-> user_key, valid |-> valid],
               UsersApi_get_by_key(user_key, valid))

Call_UsersApi_get_by_id ==
    \E user_id \in UserKeys, valid \in BOOLEAN :
        Invoke("UsersApi", "get_by_id", [key |-> user_id, valid |-> valid],
               UsersApi_get_by_id(user_id, valid))

Call_UsersApi_create ==
    \E user_data \in UserCreates, valid \in BOOLEAN :
        Invoke("UsersApi", "create", [data |-> user_data, valid |-> valid],
               UsersApi_create(user_data, valid))

Call_UsersApi_update ==
    \E user_key \in UserKeys, user_data \in UserUpdates, valid \in BOOLEAN :
        Invoke("UsersApi", "update", [key |-> user_key, data |-> user_data, valid |-> valid],
               UsersApi_update(user_key, user_data, valid))

Call_UsersApi_sync ==
    \E user \in SyncInputs, valid \in BOOLEAN :
        Invoke("UsersApi", "sync", [user |-> user, valid |-> valid],
               UsersApi_sync(user, valid))

Call_UsersApi_delete ==
    \E user_key \in UserKeys, valid \in BOOLEAN :
        Invoke("UsersApi", "delete", [key |-> user_key, valid |-> valid],
               UsersApi_delete(user_key, valid))

Call_UsersApi_assign_role ==
    \E assignment \in RoleAssignmentCreates, valid \in BOOLEAN :
        Invoke("UsersApi", "assign_role", [data |-> assignment, valid |-> valid],
               UsersApi_assign_role(assignment, valid))

Call_UsersApi_unassign_role ==
    \E unassignment \in RoleAssignmentRemoves, valid \in BOOLEAN :
        Invoke("UsersApi", "unassign_role", [data |-> unassignment, valid |-> valid],
               UsersApi_unassign_role(unassignment, valid))

Call_UsersApi_get_assigned_roles ==
    \E user \in UserKeys, tenant \in TenantKeys \cup {None},
       kwargs \in PaginationKwargs, valid \in BOOLEAN :
        Invoke("UsersApi", "get_assigned_roles",
               [user |-> user, tenant |-> tenant, kwargs |-> kwargs, valid |-> valid],
               UsersApi_get_assigned_roles(user, tenant, kwargs, valid))

Call_EnvironmentsApi_list ==
    \E project_key \in ProjectKeys, kwargs \in PaginationKwargs, valid \in BOOLEAN :
        Invoke("EnvironmentsApi", "list",
               [project |-> project_key, kwargs |-> kwargs, valid |-> valid],
               EnvironmentsApi_list(project_key, kwargs, valid))

Call_EnvironmentsApi_get ==
    \E project_key \in ProjectKeys, environment_key \in EnvironmentKeys, valid \in BOOLEAN :
        Invoke("EnvironmentsApi", "get",
               [project |-> project_key, key |-> environment_key, valid |-> valid],
               EnvironmentsApi_get(project_key, environment_key, valid))

Call_EnvironmentsApi_get_by_key ==
    \E project_key \in ProjectKeys, environment_key \in EnvironmentKeys, valid \in BOOLEAN :
        Invoke("EnvironmentsApi", "get_by_key",
               [project |-> project_key, key |-> environment_key, valid |-> valid],
               EnvironmentsApi_get_by_key(project_key, environment_key, valid))

Call_EnvironmentsApi_get_by_id ==
    \E project_id \in ProjectKeys, environment_id \in EnvironmentKeys, valid \in BOOLEAN :
        Invoke("EnvironmentsApi", "get_by_id",
               [project |-> project_id, key |-> environment_id, valid |-> valid],
               EnvironmentsApi_get_by_id(project_id, environment_id, valid))

Call_EnvironmentsApi_get_stats ==
    \E project_key \in ProjectKeys, environment_key \in EnvironmentKeys, valid \in BOOLEAN :
        Invoke("EnvironmentsApi", "get_stats",
               [project |-> project_key, key |-> environment_key, valid |-> valid],
               EnvironmentsApi_get_stats(project_key, environment_key, valid))

Call_EnvironmentsApi_get_api_key ==
    \E project_key \in ProjectKeys, environment_key \in EnvironmentKeys, valid \in BOOLEAN :
        Invoke("EnvironmentsApi", "get_api_key",
               [project |-> project_key, key |-> environment_key, valid |-> valid],
               EnvironmentsApi_get_api_key(project_key, environment_key, valid))

Call_EnvironmentsApi_create ==
    \E project_key \in ProjectKeys, environment_data \in EnvironmentCreates,
       valid \in BOOLEAN :
        Invoke("EnvironmentsApi", "create",
               [project |-> project_key, data |-> environment_data, valid |-> valid],
               EnvironmentsApi_create(project_key, environment_data, valid))

Call_EnvironmentsApi_update ==
    \E project_key \in ProjectKeys, environment_key \in EnvironmentKeys,
       environment_data \in EnvironmentUpdates, valid \in BOOLEAN :
        Invoke("EnvironmentsApi", "update",
               [project |-> project_key, key |-> environment_key,
                data |-> environment_data, valid |-> valid],
               EnvironmentsApi_update(project_key, environment_key, environment_data, valid))

Call_EnvironmentsApi_copy ==
    \E project_key \in ProjectKeys, environment_key \in EnvironmentKeys,
       copy_params \in EnvironmentCopies, valid \in BOOLEAN :
        Invoke("EnvironmentsApi", "copy",
               [project |-> project_key, key |-> environment_key,
                data |-> copy_params, valid |-> valid],
               EnvironmentsApi_copy(project_key, environment_key, copy_params, valid))

Call_EnvironmentsApi_delete ==
    \E project_key \in ProjectKeys, environment_key \in EnvironmentKeys, valid \in BOOLEAN :
        Invoke("EnvironmentsApi", "delete",
               [project |-> project_key, key |-> environment_key, valid |-> valid],
               EnvironmentsApi_delete(project_key, environment_key, valid))

Call_TenantsApi_list ==
    \E kwargs \in PaginationKwargs :
        Invoke("TenantsApi", "list", [kwargs |-> kwargs], TenantsApi_list(kwargs))

Call_TenantsApi_list_tenant_users ==
    \E tenant_key \in TenantKeys, kwargs \in PaginationKwargs :
        Invoke("TenantsApi", "list_tenant_users", [key |-> tenant_key, kwargs |-> kwargs],
               TenantsApi_list_tenant_users(tenant_key, kwargs))

Call_TenantsApi_get ==
    \E tenant_key \in TenantKeys :
        Invoke("TenantsApi", "get", [key |-> tenant_key], TenantsApi_get(tenant_key))

Call_TenantsApi_get_by_key ==
    \E tenant_key \in TenantKeys :
        Invoke("TenantsApi", "get_by_key", [key |-> tenant_key],
               TenantsApi_get_by_key(tenant_key))

Call_TenantsApi_get_by_id ==
    \E tenant_id \in TenantKeys :
        Invoke("TenantsApi", "get_by_id", [key |-> tenant_id],
               TenantsApi_get_by_id(tenant_id))

Call_TenantsApi_create ==
    \E tenant_data \in TenantCreates :
        Invoke("TenantsApi", "create", [data |-> tenant_data], TenantsApi_create(tenant_data))

Call_TenantsApi_update ==
    \E tenant_key \in TenantKeys, tenant_data \in TenantUpdates :
        Invoke("TenantsApi", "update", [key |-> tenant_key, data |-> tenant_data],
               TenantsApi_update(tenant_key, tenant_data))

Call_TenantsApi_delete ==
    \E tenant_key \in TenantKeys :
        Invoke("TenantsApi", "delete", [key |-> tenant_key], TenantsApi_delete(tenant_key))

Call_TenantsApi_delete_tenant_user ==
    \E tenant_key \in TenantKeys, user_key \in UserKeys :
        Invoke("TenantsApi", "delete_tenant_user", [key |-> tenant_key, user |-> user_key],
               TenantsApi_delete_tenant_user(tenant_key, user_key))

-----------------------------------------------------------------------------
(* permit.config *)

LoggerConfig(kwargs) ==
    [level |-> Arg(kwargs, "level", "info"),
     label |-> Arg(kwargs, "label", "Permit"),
     log_as_json |-> Arg(kwargs, "json", FALSE)]

MultiTenancyConfig(kwargs) ==
    [default_tenant |-> Arg(kwargs, "default_tenant", "default"),
     use_default_tenant_if_empty |-> Arg(kwargs, "use_default_tenant_if_empty", TRUE)]

NoConfig == [token |-> None]

\* PermitConfig with token declared like the other fields, with a default
PermitConfig_optional_token(kwargs) ==
    [ok |-> TRUE, error |-> "",
     value |-> [token |-> Arg(kwargs, "token", ""),
                pdp |-> Arg(kwargs, "pdp", "http://localhost:7766"),
                api_url |-> Arg(kwargs, "api_url", "https://api.permit.io"),
                log |-> Arg(kwargs, "log", LoggerConfig(NoParams)),
                multi_tenancy |-> Arg(kwargs, "multi_tenancy",
                                      MultiTenancyConfig(NoParams))]]

\* token is required (Field(...)); every other field has a default
PermitConfig(kwargs) ==
    IF "token" \notin DOMAIN kwargs
    THEN [ok |-> FALSE, error |-> "ValidationError", value |-> NoConfig]
    ELSE [ok |-> TRUE, error |-> "",
          value |-> [token |-> kwargs["token"],
                     pdp |-> Arg(kwargs, "pdp", "http://localhost:7766"),
                     api_url |-> Arg(kwargs, "api_url", "https://api.permit.io"),
                     log |-> Arg(kwargs, "log", LoggerConfig(NoParams)),
                     multi_tenancy |-> Arg(kwargs, "multi_tenancy",
                                           MultiTenancyConfig(NoParams))]]

LoggerKwargs ==
    { [level |-> "debug"], [label |-> "MyApp"], [json |-> TRUE],
      [level |-> "debug", json |-> TRUE], NoParams }
MultiTenancyKwargs ==
    { [default_tenant |-> "acme"], [use_default_tenant_if_empty |-> FALSE], NoParams }

\* the keyword arguments a caller may construct PermitConfig with
ConfigKwargs ==
    { t @@ p @@ a @@ l @@ m :
        t \in {NoParams, [token |-> "permit_key_1"], [token |-> "permit_key_2"]},
        p \in {NoParams, [pdp |-> "http://pdp:7000"]},
        a \in {NoParams, [api_url |-> "https://api.example.org"]},
        l \in {NoParams} \cup { [log |-> LoggerConfig(k)] : k \in LoggerKwargs },
        m \in {NoParams} \cup { [multi_tenancy |-> MultiTenancyConfig(k)] :
                                  k \in MultiTenancyKwargs } }

Construct(kwargs) ==
    /\ cfg_kwargs' = kwargs
    /\ cfg_result' = PermitConfig(kwargs)
    /\ UNCHANGED <<api_vars, gen_vars>>

-----------------------------------------------------------------------------
(* permit.openapi: the generated endpoints create_resource and
   get_data_for_user, each with sync_detailed, sync, asyncio_detailed, asyncio *)

UNSET == "<UNSET>"

GenProjectIds == {"proj-a", "proj-b"}
GenEnvIds == {"dev"}
GenOrgIds == {"org-1"}
GenUserIds == {"u1"}
PermitSessions == {UNSET, "session-1"}
CookieJars == { NoParams, [lang |-> "en"], [lang |-> "en", permit_session |-> "session-0"] }
ResourceCreates == { Model("ResourceCreate", [key |-> "repository", name |-> "Repository"]) }

\* a Client / AuthenticatedClient with the given cookies
Clients ==
    { [base_url |-> "https://api.permit.io", cookies |-> c,
       headers |-> [Authorization |-> "Bearer permit_key_1"], timeout |-> 5,
       verify_ssl |-> TRUE] : c \in CookieJars }

\* client.get_headers(), client.get_cookies() (a dict of its own), client.get_timeout()
get_headers(client) == client.headers
get_cookies(client) == client.cookies
get_timeout(client) == client.timeout

\* the answers httpx may hand back: any status, a body that is JSON or is not
GenStatuses == {200, 201, 404, 422}
JsonContents == {"{json-1}", "{json-2}"}
Contents == JsonContents \cup {"<html>"}
ResponseHeaders == { [server |-> "a"], [server |-> "b"] }
HttpxResponses ==
    [status_code : GenStatuses, content : Contents, headers : ResponseHeaders]

GenNone == [kind |-> "None"]
GenRaised(e) == [kind |-> "raise", error |-> e]

\* response.json(): the decoded body, or the decoding error on a body that
\* is not JSON
response_json(resp) ==
    IF resp.content \in JsonContents
    THEN [kind |-> "json", value |-> resp.content]
    ELSE GenRaised("JSONDecodeError")

\* <Model>.parse_obj(obj): the decoded object unmarshalled into the model; an
\* error raised while evaluating the argument never reaches parse_obj
parse_obj(type, obj) ==
    IF obj.kind = "raise"
    THEN obj
    ELSE [kind |-> "model", type |-> type, data |-> obj.value]

\* Response(status_code=, content=, headers=, parsed=); building it needs
\* parsed, so an error raised while parsing leaves no Response
Response(status_code, content, headers, parsed) ==
    IF parsed.kind = "raise"
    THEN parsed
    ELSE [kind |-> "Response", status_code |-> status_code, content |-> content,
          headers |-> headers, parsed |-> parsed]

\* <expression>.parsed
Parsed(r) == IF r.kind = "raise" THEN r ELSE r.parsed

(* create_resource *)

\* a variant that sets the permit_session cookie whether or not one was given
create_resource_get_kwargs_cookie_always(proj_id, env_id, client, json_body, permit_session) ==
    [method |-> "post",
     url |-> <<client.base_url, "v2", "schema", proj_id, env_id, "resources">>,
     headers |-> get_headers(client),
     cookies |-> Update(get_cookies(client), [permit_session |-> permit_session]),
     timeout |-> get_timeout(client), json |-> dict(json_body)]

create_resource_get_kwargs(proj_id, env_id, client, json_body, permit_session) ==
    LET url == <<client.base_url, "v2", "schema", proj_id, env_id, "resources">>
        headers == get_headers(client)
        cookies0 == get_cookies(client)
        cookies == IF permit_session # UNSET
                   THEN Update(cookies0, [permit_session |-> permit_session])
                   ELSE cookies0
        json_json_body == dict(json_body)
    IN  [method |-> "post", url |-> url, headers |-> headers, cookies |-> cookies,
         timeout |-> get_timeout(client), json |-> json_json_body]

\* a variant that knows the success status only
create_resource_parse_response_200_only(resp) ==
    IF resp.status_code = 200 THEN parse_obj("ResourceRead", response_json(resp)) ELSE GenNone

create_resource_parse_response(resp) ==
    IF resp.status_code = 200 THEN parse_obj("ResourceRead", response_json(resp))
    ELSE IF resp.status_code = 422 THEN parse_obj("HTTPValidationError", response_json(resp))
    ELSE GenNone

create_resource_build_response(resp) ==
    Response(resp.status_code, resp.content, resp.headers,
             create_resource_parse_response(resp))

\* each function below is given the response httpx made to its request
create_resource_sync_detailed(resp) == create_resource_build_response(resp)

create_resource_sync(resp) == Parsed(create_resource_sync_detailed(resp))

create_resource_asyncio_detailed(resp) == create_resource_build_response(resp)

create_resource_asyncio(resp) == Parsed(create_resource_asyncio_detailed(resp))

(* get_data_for_user *)

get_data_for_user_get_kwargs(org_id, proj_id, env_id, user_id, client) ==
    LET url == <<client.base_url, "v2", "internal", "opal_data", org_id, proj_id, env_id,
                 "users", user_id>>
        headers == get_headers(client)
        cookies == get_cookies(client)
    IN  [method |-> "get", url |-> url, headers |-> headers, cookies |-> cookies,
         timeout |-> get_timeout(client)]

get_data_for_user_parse_response(resp) ==
    IF resp.status_code = 200 THEN parse_obj("UserData", response_json(resp))
    ELSE IF resp.status_code = 422 THEN parse_obj("HTTPValidationError", response_json(resp))
    ELSE GenNone

\* a variant that keeps the raw response and parses nothing
get_data_for_user_build_response_unparsed(resp) ==
    Response(resp.status_code, resp.content, resp.headers, GenNone)

get_data_for_user_build_response(resp) ==
    Response(resp.status_code, resp.content, resp.headers,
             get_data_for_user_parse_response(resp))

get_data_for_user_sync_detailed(resp) == get_data_for_user_build_response(resp)

get_data_for_user_sync(resp) == Parsed(get_data_for_user_sync_detailed(resp))

get_data_for_user_asyncio_detailed(resp) == get_data_for_user_build_response(resp)

get_data_for_user_asyncio(resp) == Parsed(get_data_for_user_asyncio_detailed(resp))

(* the caller of the generated endpoints: one call at a time, the next one
   once the last has returned or raised *)

NoGenCall == [endpoint |-> "none", fn |-> "none", args |-> NoParams]
NoGenRequest == [method |-> "none"]
NoGenResponse == [status_code |-> 0, content |-> "", headers |-> NoParams]
GenPending == [kind |-> "pending"]

GenFunctions == {"sync_detailed", "sync", "asyncio_detailed", "asyncio"}

\* the caller is between calls
GenReady == gen_pc \in {"ready", "done"}

\* a generated function builds its keyword arguments and hands them to httpx
GenCall(endpoint, fn, args, kwargs) ==
    /\ gen_call' = [endpoint |-> endpoint, fn |-> fn, args |-> args]
    /\ gen_request' = kwargs
    /\ gen_response' = NoGenResponse
    /\ gen_result' = GenPending
    /\ gen_pc' = "awaiting"
    /\ UNCHANGED <<api_vars, cfg_vars>>

Call_create_resource(fn) ==
    \E proj_id \in GenProjectIds, env_id \in GenEnvIds, client \in Clients,
       json_body \in ResourceCreates, permit_session \in PermitSessions :
        GenCall("create_resource", fn,
                [proj_id |-> proj_id, env_id |-> env_id, client |-> client,
                 json_body |-> json_body, permit_session |-> permit_session],
                create_resource_get_kwargs(proj_id, env_id, client, json_body,
                                           permit_session))

Call_get_data_for_user(fn) ==
    \E org_id \in GenOrgIds, proj_id \in GenProjectIds, env_id \in GenEnvIds,
       user_id \in GenUserIds, client \in Clients :
        GenCall("get_data_for_user", fn,
                [org_id |-> org_id, proj_id |-> proj_id, env_id |-> env_id,
                 user_id |-> user_id, client |-> client],
                get_data_for_user_get_kwargs(org_id, proj_id, env_id, user_id, client))

Call_create_resource_sync_detailed == GenReady /\ Call_create_resource("sync_detailed")
Call_create_resource_sync == GenReady /\ Call_create_resource("sync")
Call_create_resource_asyncio_detailed == GenReady /\ Call_create_resource("asyncio_detailed")
Call_create_resource_asyncio == GenReady /\ Call_create_resource("asyncio")
Call_get_data_for_user_sync_detailed == GenReady /\ Call_get_data_for_user("sync_detailed")
Call_get_data_for_user_sync == GenReady /\ Call_get_data_for_user("sync")
Call_get_data_for_user_asyncio_detailed == GenReady /\ Call_get_data_for_user("asyncio_detailed")
Call_get_data_for_user_asyncio == GenReady /\ Call_get_data_for_user("asyncio")

\* what the function called makes of the response to its request
GenFinish(call, resp) ==
    CASE call.endpoint = "create_resource" /\ call.fn = "sync_detailed" ->
            create_resource_sync_detailed(resp)
      [] call.endpoint = "create_resource" /\ call.fn = "sync" ->
            create_resource_sync(resp)
      [] call.endpoint = "create_resource" /\ call.fn = "asyncio_detailed" ->
            create_resource_asyncio_detailed(resp)
      [] call.endpoint = "create_resource" /\ call.fn = "asyncio" ->
            create_resource_asyncio(resp)
      [] call.endpoint = "get_data_for_user" /\ call.fn = "sync_detailed" ->
            get_data_for_user_sync_detailed(resp)
      [] call.endpoint = "get_data_for_user" /\ call.fn = "sync" ->
            get_data_for_user_sync(resp)
      [] call.endpoint = "get_data_for_user" /\ call.fn = "asyncio_detailed" ->
            get_data_for_user_asyncio_detailed(resp)
      [] call.endpoint = "get_data_for_user" /\ call.fn = "asyncio" ->
            get_data_for_user_asyncio(resp)

\* httpx.request / AsyncClient.request comes back with a response, and the
\* function returns (or raises) what it makes of it
HttpxResponds(resp) ==
    /\ gen_response' = resp
    /\ gen_result' = GenFinish(gen_call, resp)
    /\ gen_pc' = "done"
    /\ UNCHANGED <<gen_call, gen_request, api_vars, cfg_vars>>

Httpx_request ==
    /\ gen_pc = "awaiting"
    /\ \E resp \in HttpxResponses : HttpxResponds(resp)

-----------------------------------------------------------------------------
(* Specifications *)

Init ==
    /\ api_context \in [api_key_level : ApiKeyLevel,
                        project : {"proj-a"},
                        environment : EnvironmentKeys]
    /\ pc = "ready"
    /\ cur = NoCall
    /\ outcome = Raise("")
    /\ response = NoResponse
    /\ result = Pending
    /\ npassed = 0
    /\ naccepted = 0
    /\ nrequests = 0
    /\ call_requests = 0
    /\ repeat = FALSE
    /\ prev_body = ""
    /\ cfg_kwargs = NoParams
    /\ cfg_result = [ok |-> FALSE, error |-> "", value |-> NoConfig]
    /\ gen_pc = "ready"
    /\ gen_call = NoGenCall
    /\ gen_request = NoGenRequest
    /\ gen_response = NoGenResponse
    /\ gen_result = GenPending

Next ==
    \/ Call_EnvironmentsApi_list
    \/ Call_EnvironmentsApi_get
    \/ Call_EnvironmentsApi_get_by_key
    \/ Call_EnvironmentsApi_get_by_id
    \/ Call_EnvironmentsApi_get_stats
    \/ Call_EnvironmentsApi_get_api_key
    \/ Call_EnvironmentsApi_create
    \/ Call_EnvironmentsApi_update
    \/ Call_EnvironmentsApi_copy
    \/ Call_EnvironmentsApi_delete
    \/ Call_TenantsApi_list
    \/ Call_TenantsApi_list_tenant_users
    \/ Call_TenantsApi_get
    \/ Call_TenantsApi_get_by_key
    \/ Call_TenantsApi_get_by_id
    \/ Call_TenantsApi_create
    \/ Call_TenantsApi_update
    \/ Call_TenantsApi_delete
    \/ Call_TenantsApi_delete_tenant_user
    \/ Call_UsersApi_list
    \/ Call_UsersApi_get
    \/ Call_UsersApi_get_by_key
    \/ Call_UsersApi_get_by_id
    \/ Call_UsersApi_create
    \/ Call_UsersApi_update
    \/ Call_UsersApi_sync
    \/ Call_UsersApi_delete
    \/ Call_UsersApi_assign_role
    \/ Call_UsersApi_unassign_role
    \/ Call_UsersApi_get_assigned_roles
    \/ \E status \in Statuses, body \in Bodies : Respond(status, body)
    \/ Return

Spec == Init /\ [][Next]_vars

NextConfig == \E kwargs \in ConfigKwargs : Construct(kwargs)

SpecConfig == Init /\ [][NextConfig]_vars

NextOpenapi ==
    \/ Call_create_resource_sync_detailed
    \/ Call_create_resource_sync
    \/ Call_create_resource_asyncio_detailed
    \/ Call_create_resource_asyncio
    \/ Call_get_data_for_user_sync_detailed
    \/ Call_get_data_for_user_sync
    \/ Call_get_data_for_user_asyncio_detailed
    \/ Call_get_data_for_user_asyncio
    \/ Httpx_request

SpecOpenapi == Init /\ [][NextOpenapi]_vars

-----------------------------------------------------------------------------
(* Properties *)

EnvironmentsOps ==
    {"list", "get", "get_by_key", "get_by_id", "get_stats", "get_api_key",
     "create", "update", "copy", "delete"}

\* the level the claims give each API's operations
ClaimedLevel(api) ==
    IF api = "EnvironmentsApi" THEN PROJECT_LEVEL_API_KEY ELSE ENVIRONMENT_LEVEL_API_KEY

\* C1: a call of any operation made while the configured API-key level differs
\* from the level the operation requires ends at once with PermitContextError,
\* and the count of HTTP requests issued does not move.
C1_MismatchRaisesBeforeRequest ==
    [][ (pc \in {"ready", "done"}
            /\ api_context.api_key_level # ClaimedLevel(cur'.api))
        => /\ pc' = "done"
           /\ result' = Raised("PermitContextError")
           /\ outcome'.req = NoRequest
           /\ call_requests' = 0
           /\ nrequests' = nrequests ]_vars

C1_Witness ==
    /\ cur.api = "UsersApi"
    /\ cur.op = "list"
    /\ api_context.api_key_level # ENVIRONMENT_LEVEL_API_KEY
    /\ pc = "done"
    /\ result = Raised("PermitContextError")
    /\ nrequests = 1

\* C2: the guard's verdict depends on the endpoint's fixed level alone: an
\* EnvironmentsApi operation (one of the ten) is refused exactly when the
\* configured level is not PROJECT_LEVEL_API_KEY, a TenantsApi or UsersApi
\* operation exactly when it is not ENVIRONMENT_LEVEL_API_KEY, and a request is
\* in flight or answered only for a call whose level matched.
C2_ScopeFixedPerEndpoint ==
    cur # NoCall =>
        /\ cur.api \in {"EnvironmentsApi", "TenantsApi", "UsersApi"}
        /\ cur.api = "EnvironmentsApi" =>
              /\ cur.op \in EnvironmentsOps
              /\ (outcome.err = "PermitContextError")
                     <=> (api_context.api_key_level # PROJECT_LEVEL_API_KEY)
        /\ cur.api \in {"TenantsApi", "UsersApi"} =>
              ((outcome.err = "PermitContextError")
                     <=> (api_context.api_key_level # ENVIRONMENT_LEVEL_API_KEY))
        /\ (outcome.req # NoRequest \/ call_requests > 0 \/ pc \in {"awaiting", "responded"})
              => api_context.api_key_level = ClaimedLevel(cur.api)

C2_Witness ==
    /\ cur.api = "EnvironmentsApi"
    /\ cur.op = "copy"
    /\ pc = "awaiting"
    /\ api_context.api_key_level = PROJECT_LEVEL_API_KEY
    /\ outcome.req.method = "POST"

\* the call in progress passed its guard, by the level the claims give its API
GuardPassed == cur # NoCall /\ api_context.api_key_level = ClaimedLevel(cur.api)

\* the caller's arguments were accepted by the signature's validation (a
\* TenantsApi method validates nothing)
ArgsValidated == "valid" \in DOMAIN cur.args => cur.args.valid

\* UsersApi.sync was handed a dict that holds no "key", or None under it
SyncWithoutKey ==
    /\ cur.api = "UsersApi"
    /\ cur.op = "sync"
    /\ cur.args.user.kind = "dict"
    /\ ("key" \in DOMAIN cur.args.user.fields => cur.args.user.fields["key"] = None)

ErrorStatuses == {404, 500}

\* C3 as stated, read for calls with well-typed arguments: every finished call
\* whose guard passed issued exactly one request and had its response.
C3_Original ==
    (GuardPassed /\ ArgsValidated /\ pc = "done")
        => (call_requests = 1 /\ response # NoResponse)

\* C3 as amended: a call whose guard passes, whose arguments are accepted and
\* which is not a sync of a dict without a key has exactly one request issued
\* for it from the moment it is made, and is finished only once that request
\* is answered; a call stopped by the validation or by sync's KeyError is
\* finished with no request issued.
C3_OneRequestPerAcceptedCall ==
    GuardPassed =>
        /\ (ArgsValidated /\ ~SyncWithoutKey) =>
              /\ call_requests = 1
              /\ outcome.req # NoRequest
              /\ pc \in {"awaiting", "responded", "done"}
              /\ pc = "done" => (response # NoResponse /\ result.kind \in {"return", "raise"})
              /\ pc \in {"awaiting", "responded"} => result = Pending
        /\ ~(ArgsValidated /\ ~SyncWithoutKey) =>
              /\ call_requests = 0
              /\ pc = "done"
              /\ response = NoResponse
              /\ result.kind = "raise"
              /\ result.error = IF ArgsValidated THEN "KeyError" ELSE "ValidationError"

C3_Witness ==
    /\ cur.api = "EnvironmentsApi"
    /\ cur.op = "get_by_id"
    /\ GuardPassed
    /\ pc = "done"
    /\ call_requests = 1
    /\ nrequests = 1
    /\ result.kind = "return"
    /\ response.status = 200

\* C4: once the remote API has answered a call with an error status, one
\* request has been issued for the call and no more, and the call ends by
\* raising PermitApiError with no model.
C4_ErrorStatusRaisesNoRetry ==
    (pc \in {"responded", "done"} /\ response.status \in ErrorStatuses)
        => /\ call_requests = 1
           /\ nrequests = naccepted
           /\ pc = "done" => result = Raised("PermitApiError")

C4_Witness ==
    /\ pc = "done"
    /\ cur.api = "TenantsApi"
    /\ cur.op = "get"
    /\ response.status = 404
    /\ result = Raised("PermitApiError")
    /\ call_requests = 1

\* C5 as stated, read for calls with well-typed arguments: each such call
\* moves the count of requests issued exactly as it moves the count of calls
\* whose guard passed.
C5_Original ==
    [][ (pc \in {"ready", "done"} /\ ("valid" \in DOMAIN cur'.args => cur'.args.valid))
        => (nrequests' - nrequests = npassed' - npassed) ]_vars

\* C5 as amended: the requests issued number the calls that passed the guard,
\* the validation and sync's key check; a call that repeats the previous one
\* argument for argument still has its own request, and a finished call that
\* returns a model returns the one built from the response to its own request.
C5_NoCaching ==
    /\ nrequests = naccepted
    /\ naccepted <= npassed
    /\ (GuardPassed /\ ArgsValidated /\ ~SyncWithoutKey) => call_requests = 1
    /\ (pc = "done" /\ result.kind = "return")
          => /\ response.status \notin ErrorStatuses
             /\ result = Returned(outcome.model, response.body)

C5_Witness ==
    /\ repeat
    /\ cur.api = "UsersApi"
    /\ cur.op = "get"
    /\ pc = "done"
    /\ nrequests = 2
    /\ result.kind = "return"
    /\ prev_body # ""
    /\ result.body # prev_body

ListOperations ==
    { <<"EnvironmentsApi", "list">>, <<"TenantsApi", "list">>,
      <<"TenantsApi", "list_tenant_users">>, <<"UsersApi", "list">>,
      <<"UsersApi", "get_assigned_roles">> }

\* C6: a list operation that gets past its guard (and validation) has one GET
\* issued for it whose query parameters page and per_page are the caller's
\* values, or 1 and 100 where the caller omitted them.
C6_PaginationParams ==
    (<<cur.api, cur.op>> \in ListOperations /\ GuardPassed /\ ArgsValidated)
        => /\ call_requests = 1
           /\ outcome.req.method = "GET"
           /\ {"page", "per_page"} \subseteq DOMAIN outcome.req.params
           /\ outcome.req.params["page"] =
                  (IF "page" \in DOMAIN cur.args.kwargs THEN cur.args.kwargs["page"] ELSE 1)
           /\ outcome.req.params["per_page"] =
                  (IF "per_page" \in DOMAIN cur.args.kwargs
                   THEN cur.args.kwargs["per_page"] ELSE 100)

C6_Witness ==
    /\ cur.api = "TenantsApi"
    /\ cur.op = "list_tenant_users"
    /\ cur.args.kwargs = [page |-> 2]
    /\ pc = "awaiting"
    /\ outcome.req.params = [page |-> 2, per_page |-> 100]

\* what get gives for the arguments of the call in progress
GetOutcome ==
    CASE cur.api = "EnvironmentsApi" ->
            EnvironmentsApi_get(cur.args.project, cur.args.key, cur.args.valid)
      [] cur.api = "TenantsApi" -> TenantsApi_get(cur.args.key)
      [] cur.api = "UsersApi" -> UsersApi_get(cur.args.key, cur.args.valid)

\* C7: a call of get_by_key or get_by_id sends the request get sends for the
\* same arguments (or none where get sends none), fails before the request
\* with the error get fails with, and ends with what get makes of the same
\* response.
C7_AliasesOfGet ==
    (cur # NoCall /\ cur.op \in {"get_by_key", "get_by_id"})
        => /\ outcome.req = GetOutcome.req
           /\ outcome.err = GetOutcome.err
           /\ pc = "done" =>
                 result = IF GetOutcome.req = NoRequest
                          THEN Raised(GetOutcome.err)
                          ELSE handle_response(GetOutcome.model, response)

C7_Witness ==
    /\ cur.api = "EnvironmentsApi"
    /\ cur.op = "get_by_id"
    /\ pc = "done"
    /\ outcome.req.method = "GET"
    /\ outcome.req.path = <<"v2", "projects", cur.args.project, "envs", cur.args.key>>
    /\ result.kind = "return"
    /\ result.model = "EnvironmentRead"

\* C8: the request of get_assigned_roles is a GET to the role_assignments path
\* whose query carries user always, tenant exactly when the tenant argument is
\* not None, and page and per_page.
C8_AssignedRolesParams ==
    (cur.api = "UsersApi" /\ cur.op = "get_assigned_roles" /\ GuardPassed /\ ArgsValidated)
        => /\ outcome.req.method = "GET"
           /\ outcome.req.path = <<"v2", "facts", api_context.project,
                                   api_context.environment, "role_assignments">>
           /\ {"user", "page", "per_page"} \subseteq DOMAIN outcome.req.params
           /\ outcome.req.params["user"] = cur.args.user
           /\ ("tenant" \in DOMAIN outcome.req.params) <=> (cur.args.tenant # None)
           /\ cur.args.tenant # None => outcome.req.params["tenant"] = cur.args.tenant
           /\ DOMAIN outcome.req.params \subseteq {"user", "tenant", "page", "per_page"}

C8_Witness ==
    /\ cur.api = "UsersApi"
    /\ cur.op = "get_assigned_roles"
    /\ cur.args.tenant = None
    /\ pc = "awaiting"
    /\ DOMAIN outcome.req.params = {"user", "page", "per_page"}

\* the key the spec gives sync's input: user.key, or the value under "key"
SyncHasKeyEntry ==
    cur.args.user.kind = "model" \/ "key" \in DOMAIN cur.args.user.fields

SyncPutsToKey ==
    /\ call_requests = 1
    /\ outcome.req.method = "PUT"
    /\ outcome.req.path = <<"v2", "facts", api_context.project, api_context.environment,
                            "users", cur.args.user.fields["key"]>>
    /\ (pc = "done" /\ response.status \notin ErrorStatuses)
          => result = Returned("UserRead", response.body)

\* C9 as stated: a sync of a UserCreate, or of a dict with a "key" entry, is one
\* PUT to the users path suffixed with that key, and returns the UserRead
\* built from the response.
C9_Original ==
    (cur.api = "UsersApi" /\ cur.op = "sync" /\ GuardPassed /\ ArgsValidated
        /\ SyncHasKeyEntry) => SyncPutsToKey

\* C9 as amended: the same, for a UserCreate and for a dict whose "key" entry
\* is not None; a dict whose "key" is None is refused like a dict without
\* "key": KeyError, and no request.
C9_SyncPutsUserKey ==
    (cur.api = "UsersApi" /\ cur.op = "sync" /\ GuardPassed /\ ArgsValidated)
        => /\ ~SyncWithoutKey => SyncPutsToKey
           /\ SyncWithoutKey =>
                 /\ call_requests = 0
                 /\ pc = "done"
                 /\ result = Raised("KeyError")

C9_Witness ==
    /\ cur.api = "UsersApi"
    /\ cur.op = "sync"
    /\ cur.args.user.kind = "dict"
    /\ "key" \in DOMAIN cur.args.user.fields
    /\ cur.args.user.fields["key"] = "u2"
    /\ pc = "done"
    /\ outcome.req.method = "PUT"
    /\ result = Returned("UserRead", "body-2")

Constructed == cfg_result.ok \/ cfg_result.error # ""

\* C10: a PermitConfig constructed without token fails; one constructed with
\* token has each omitted field at its default, so that with only a token
\* every other field is the default.
C10_ConfigDefaults ==
    Constructed =>
        /\ "token" \notin DOMAIN cfg_kwargs
              => (~cfg_result.ok /\ cfg_result.error = "ValidationError")
        /\ "token" \in DOMAIN cfg_kwargs =>
              /\ cfg_result.ok
              /\ cfg_result.value.token = cfg_kwargs["token"]
              /\ "pdp" \notin DOMAIN cfg_kwargs
                    => cfg_result.value.pdp = "http://localhost:7766"
              /\ "api_url" \notin DOMAIN cfg_kwargs
                    => cfg_result.value.api_url = "https://api.permit.io"
              /\ "log" \notin DOMAIN cfg_kwargs
                    => cfg_result.value.log =
                           [level |-> "info", label |-> "Permit", log_as_json |-> FALSE]
              /\ "multi_tenancy" \notin DOMAIN cfg_kwargs
                    => cfg_result.value.multi_tenancy =
                           [default_tenant |-> "default",
                            use_default_tenant_if_empty |-> TRUE]

C10_Witness ==
    /\ DOMAIN cfg_kwargs = {"token"}
    /\ cfg_result.ok
    /\ cfg_result.value.pdp = "http://localhost:7766"
    /\ cfg_result.value.log.level = "info"
    /\ cfg_result.value.multi_tenancy.use_default_tenant_if_empty

\* the request's JSON body is a dict holding the fields of d other than `name`
BodyIsFieldsWithout(d, name) ==
    /\ outcome.req.json.kind = "dict"
    /\ DOMAIN outcome.req.json.fields = (DOMAIN d.fields) \ {name}
    /\ \A k \in (DOMAIN d.fields) \ {name} : outcome.req.json.fields[k] = d.fields[k]

\* the generated function called, its arguments and the response it was given
GenDone(endpoint) == gen_pc = "done" /\ gen_call.endpoint = endpoint

SuccessModel(endpoint) ==
    IF endpoint = "create_resource" THEN "ResourceRead" ELSE "UserData"

ParseResponseOf(endpoint, resp) ==
    IF endpoint = "create_resource"
    THEN create_resource_parse_response(resp)
    ELSE get_data_for_user_parse_response(resp)

IsModel(v, type, resp) ==
    v = [kind |-> "model", type |-> type, data |-> resp.content]

\* the mapping by status alone, as stated
ParsedByStatusAlone(endpoint, resp, v) ==
    /\ resp.status_code = 200 => IsModel(v, SuccessModel(endpoint), resp)
    /\ resp.status_code = 422 => IsModel(v, "HTTPValidationError", resp)
    /\ resp.status_code \notin {200, 422} => v = GenNone

\* the mapping when the body of a 200 or 422 may fail to decode
ParsedByStatusAndBody(endpoint, resp, v) ==
    /\ resp.status_code \in {200, 422} /\ resp.content \in JsonContents =>
           IsModel(v, IF resp.status_code = 200 THEN SuccessModel(endpoint)
                      ELSE "HTTPValidationError", resp)
    /\ resp.status_code \in {200, 422} /\ resp.content \notin JsonContents =>
           v = GenRaised("JSONDecodeError")
    /\ resp.status_code \notin {200, 422} => v = GenNone

DetailedFunctions == {"sync_detailed", "asyncio_detailed"}

\* the Response carries the HTTP response's status, content and headers
CarriesResponse(r, resp, parsed) ==
    /\ r.kind = "Response"
    /\ r.status_code = resp.status_code
    /\ r.content = resp.content
    /\ r.headers = resp.headers
    /\ r.parsed = parsed

\* C12 as stated: for every status code sync_detailed and asyncio_detailed
\* return a Response with the HTTP response's status_code, content and
\* headers, whose parsed is _parse_response of that response.
C12_Original ==
    \A endpoint \in {"create_resource", "get_data_for_user"} :
        (GenDone(endpoint) /\ gen_call.fn \in DetailedFunctions) =>
            CarriesResponse(gen_result, gen_response,
                            ParseResponseOf(endpoint, gen_response))

\* C12: sync_detailed and asyncio_detailed return a Response with the HTTP
\* response's status_code, content and headers and with parsed equal to
\* _parse_response of that response, for every status code, unless
\* _parse_response raises, and then they raise the same error and return no
\* Response.
C12_DetailedResponse ==
    \A endpoint \in {"create_resource", "get_data_for_user"} :
        (GenDone(endpoint) /\ gen_call.fn \in DetailedFunctions) =>
            LET parsed == ParseResponseOf(endpoint, gen_response)
            IN  IF parsed.kind = "raise"
                THEN gen_result = parsed
                ELSE CarriesResponse(gen_result, gen_response, parsed)

C12_Witness ==
    /\ GenDone("get_data_for_user")
    /\ gen_call.fn = "sync_detailed"
    /\ gen_response = [status_code |-> 200, content |-> "{json-1}",
                       headers |-> [server |-> "b"]]
    /\ gen_result.kind = "Response"
    /\ gen_result.parsed = [kind |-> "model", type |-> "UserData", data |-> "{json-1}"]

\* C13: create_resource builds a POST to
\* {base_url}/v2/schema/{proj_id}/{env_id}/resources whose JSON body is
\* json_body.dict(); its cookies are the client's, with permit_session set to
\* the given value exactly when one is given (not UNSET), and no other cookie
\* added or removed.
C13_CreateResourceRequest ==
    (gen_pc # "ready" /\ gen_call.endpoint = "create_resource") =>
        LET a == gen_call.args
            given == a.permit_session # UNSET
        IN  /\ gen_request.method = "post"
            /\ gen_request.url =
                   <<a.client.base_url, "v2", "schema", a.proj_id, a.env_id, "resources">>
            /\ gen_request.json = Dict(a.json_body.fields)
            /\ DOMAIN gen_request.cookies =
                   DOMAIN a.client.cookies
                       \cup (IF given THEN {"permit_session"} ELSE {})
            /\ \A n \in DOMAIN gen_request.cookies :
                   gen_request.cookies[n] =
                       IF given /\ n = "permit_session"
                       THEN a.permit_session
                       ELSE a.client.cookies[n]

C13_Witness ==
    /\ gen_pc = "awaiting"
    /\ gen_call.endpoint = "create_resource"
    /\ gen_call.args.permit_session = "session-1"
    /\ gen_call.args.client.cookies = [lang |-> "en"]
    /\ gen_request.cookies = [lang |-> "en", permit_session |-> "session-1"]
    /\ gen_request.url =
           <<"https://api.permit.io", "v2", "schema", "proj-b", "dev", "resources">>

\* C14: assign_role and unassign_role each send one request to the users path
\* suffixed with the assignment's user and "roles", the first a POST and the
\* second a DELETE, whose JSON body is the assignment's fields without user.
C14_RoleAssignmentRequests ==
    (cur.api = "UsersApi" /\ cur.op \in {"assign_role", "unassign_role"}
        /\ GuardPassed /\ ArgsValidated)
        => /\ call_requests = 1
           /\ outcome.req.method = (IF cur.op = "assign_role" THEN "POST" ELSE "DELETE")
           /\ outcome.req.path = <<"v2", "facts", api_context.project,
                                   api_context.environment, "users",
                                   cur.args.data.fields["user"], "roles">>
           /\ "user" \in DOMAIN cur.args.data.fields
           /\ BodyIsFieldsWithout(cur.args.data, "user")
           /\ outcome.req.params = NoParams

C14_Witness ==
    /\ cur.api = "UsersApi"
    /\ cur.op = "unassign_role"
    /\ cur.args.data.fields["user"] = "u2"
    /\ pc = "awaiting"
    /\ outcome.req.method = "DELETE"
    /\ outcome.req.json = Dict([role |-> "admin", tenant |-> "t1"])

SyncOfDict ==
    /\ cur.api = "UsersApi"
    /\ cur.op = "sync"
    /\ GuardPassed
    /\ ArgsValidated
    /\ cur.args.user.kind = "dict"

SyncRefused ==
    /\ pc = "done"
    /\ result = Raised("KeyError")
    /\ call_requests = 0
    /\ outcome.req = NoRequest

SyncPutsWithoutKey ==
    /\ call_requests = 1
    /\ outcome.req.method = "PUT"
    /\ BodyIsFieldsWithout(cur.args.user, "key")

C16_EnvironmentPaths ==
    (cur.api = "EnvironmentsApi" /\ GuardPassed /\ ArgsValidated)
        => /\ cur.op \in {"get", "update", "delete"} =>
                 /\ outcome.req.path =
                        <<"v2", "projects", cur.args.project, "envs", cur.args.key>>
                 /\ outcome.req.method =
                        (CASE cur.op = "get" -> "GET"
                           [] cur.op = "update" -> "PATCH"
                           [] cur.op = "delete" -> "DELETE")
           /\ cur.op \in {"list", "create"} =>
                 /\ outcome.req.path = <<"v2", "projects", cur.args.project, "envs">>
                 /\ outcome.req.method = (IF cur.op = "list" THEN "GET" ELSE "POST")

C16_Witness ==
    /\ cur.api = "EnvironmentsApi"
    /\ cur.op = "delete"
    /\ pc = "awaiting"
    /\ outcome.req.method = "DELETE"
    /\ outcome.req.path = <<"v2", "projects", "proj-b", "envs", "prod">>

====
